---- MODULE Spec2Model ----
(***************************************************************************)
(* dirplay: the audio playback engine (AudioPlayer, CompletionStreamer)    *)
(* and the speaker it drives.                                              *)
(*                                                                         *)
(* One control thread calls the AudioPlayer methods one at a time; the     *)
(* speaker's render thread pulls samples from whatever is in the mixer at  *)
(* any moment in between.  Methods that sleep between clearing the speaker *)
(* and releasing resources (Stop, and LoadTrack and Close through Stop)    *)
(* are split at that point, so that the render thread and the clock can    *)
(* act in between.                                                         *)
(*                                                                         *)
(* Time is counted in ticks of 100 ms; a sample rate is a number of        *)
(* frames per tick.                                                        *)
(***************************************************************************)
EXTENDS Integers, FiniteSets, Sequences, TLC

\* ------------------------------------------------------------------ bounds
\* Wall-clock horizon, in ticks.
MaxTime == 3
\* Largest accumulated position Pause may produce (Pause adds without limit).
MaxPos == 4

\* load commands in flight at once
MaxLoads == 2

\* messages of one kind waiting for Update
MaxMsgs == 2

\* longest slice given to shufflePlaylist
MaxLen == 3

\* ------------------------------------------------------- the files on disk
NIL == "nil"

\* a.mp3 and b.OGG differ in rate and length, c.m4a has no decoder, d.wav
\* is a valid file without any frame
Tracks == {"a.mp3", "b.OGG", "c.m4a", "d.wav"}

\* filepath.Ext(filePath)
Ext == [t \in Tracks |-> CASE t = "a.mp3" -> ".mp3"
                           [] t = "b.OGG" -> ".OGG"
                           [] t = "c.m4a" -> ".m4a"
                           [] t = "d.wav" -> ".wav"]

\* strings.ToLower on the extensions that occur
ToLower(e) == CASE e = ".OGG" -> ".ogg"
                [] e = ".MP3" -> ".mp3"
                [] OTHER      -> e

\* the extensions scanMusicDirectory admits to the playlist
audioExts == {".mp3", ".wav", ".flac", ".ogg", ".m4a", ".aac"}

\* scanMusicDirectory's test on one file
ScanAdmits(t) == ToLower(Ext[t]) \in audioExts

\* the extensions the switch in LoadTrack has a decoder for
DecoderExts == {".mp3", ".wav", ".flac", ".ogg"}

\* streamer.Len(): the number of frames the decoder reports
StreamLen == [t \in Tracks |-> CASE t = "a.mp3" -> 2
                                 [] t = "b.OGG" -> 6
                                 [] t = "c.m4a" -> 4
                                 [] t = "d.wav" -> 0]

\* format.SampleRate, in frames per tick
SampleRate == [t \in Tracks |-> CASE t = "a.mp3" -> 1
                                  [] t = "b.OGG" -> 2
                                  [] t = "c.m4a" -> 1
                                  [] t = "d.wav" -> 1]

\* beep.SampleRate.D(n): the duration of n frames
RateD(sr, n) == n \div sr

\* beep.SampleRate.N(d): the number of frames in duration d
RateN(sr, d) == d * sr

\* the positions a caller may pass to Seek
SeekArgs == {0 - 1, 1, 4}

Errors == {"none", "NoTrackLoaded", "SeekFailed", "OpenFailed", "FileSeekFailed",
           "UnsupportedFormat", "DecodeFailure", "DeviceInitFailure"}

\* --------------------------------------------------------------- the state
VARIABLES
    \* fields of AudioPlayer
    streamer,            \* the decoder of the loaded track, or NIL
    ctrl,                \* *beep.Ctrl: [nil, Paused]
    format,              \* sample rate of the loaded track
    playing,
    file,                \* *os.File, named by its path, or NIL
    duration,
    currentPos,
    startTime,
    hasEnded,
    completionStream,    \* *CompletionStreamer: [nil, completed]
    speakerInitialized,
    \* the speaker and the operating system
    mixer,               \* the streams attached to the speaker
    deviceRate,          \* sample rate the device was initialised with, 0 = none
    openStreams,         \* decoders that were opened and not closed
    openFiles,           \* file handles that were opened and not closed
    streamPos,           \* frame cursor of the loaded track's decoder
    now,                 \* wall clock
    \* the control thread
    pc,                  \* where the control thread is
    call,                \* the call in progress: [op, arg]
    ret,                 \* the last call that returned: [op, err]
    speakerInits,        \* speaker.Init calls that succeeded since the last Close
    \* callers on several threads
    lock,                \* the thread inside speaker.Lock(), or 0
    thr,                 \* per thread: [pc, v], where it is and what it read
    \* fields of PlayerModel and the bubbletea runtime around it
    playlist,            \* the playlist, also the slice shufflePlaylist works on
    currentIndex,
    mPlaying,            \* PlayerModel.playing
    mPaused,             \* PlayerModel.paused
    loads,               \* the load commands in flight, per slot: [st, t]
    nTick,               \* tea.Tick timers running or tickMsg not yet handled
    nEnded,              \* trackEndedMsg not yet handled
    nLoaded,             \* trackLoadedMsg not yet handled
    quit,                \* tea.Quit was returned
    \* shufflePlaylist
    input,               \* the slice as it was passed in
    i                    \* the loop variable

apVars  == <<streamer, ctrl, format, playing, file, duration, currentPos,
             startTime, hasEnded, completionStream, speakerInitialized>>
envVars == <<mixer, deviceRate, openStreams, openFiles, streamPos, now>>
ctlVars == <<pc, call, ret>>
lockVars == <<lock, thr>>
appVars == <<playlist, currentIndex, mPlaying, mPaused, loads, nTick,
             nEnded, nLoaded, quit>>
shuffleVars == <<input, i>>
vars    == <<apVars, envVars, ctlVars, speakerInits, lockVars, appVars,
             shuffleVars>>

\* the threads that call into the player
Threads == {1, 2}

ThreadPcs == {"idle", "panic",
              "pause_lock", "pause_flag", "pause_pos",
              "resume_lock", "resume_flag", "resume_anchor",
              "getpos_read",
              "stop_sleep", "stop_paused", "stop_getpos", "stop_store",
              "stop_release"}

IdleThread == [pc |-> "idle", v |-> 0]

NilCtrl       == [nil |-> TRUE, Paused |-> FALSE]
NilCompletion == [nil |-> TRUE, completed |-> FALSE]
NoCall        == [op |-> "none", arg |-> NIL]

\* what the control thread got back from the call that returned last
Ret(op, err) == [op |-> op, err |-> err]

Min(a, b) == IF a < b THEN a ELSE b

\* the load commands, at most MaxLoads of them in flight
LoadSlots == 1..MaxLoads

FreeSlot == [st |-> "free", t |-> NIL]

\* no PlayerModel around the player
NoModel ==
    /\ currentIndex = 0
    /\ mPlaying = FALSE
    /\ mPaused = FALSE
    /\ loads = [g \in LoadSlots |-> FreeSlot]
    /\ nTick = 0
    /\ nEnded = 0
    /\ nLoaded = 0
    /\ quit = FALSE

\* no shuffle under way
NoShuffle ==
    /\ input = <<>>
    /\ i = 0

NoApp ==
    /\ playlist = <<>>
    /\ NoModel
    /\ NoShuffle

\* NewAudioPlayer: the zero value of every field
PlayerInit ==
    /\ streamer = NIL
    /\ ctrl = NilCtrl
    /\ format = 0
    /\ playing = FALSE
    /\ file = NIL
    /\ duration = 0
    /\ currentPos = 0
    /\ startTime = 0
    /\ hasEnded = FALSE
    /\ completionStream = NilCompletion
    /\ speakerInitialized = FALSE
    /\ mixer = {}
    /\ deviceRate = 0
    /\ openStreams = {}
    /\ openFiles = {}
    /\ streamPos = 0
    /\ now = 0
    /\ pc = "idle"
    /\ call = NoCall
    /\ ret = Ret("none", "none")
    /\ speakerInits = 0
    /\ lock = 0
    /\ thr = [t \in Threads |-> IdleThread]

Init ==
    /\ PlayerInit
    /\ NoApp

\* ------------------------------------------------------------- GetPosition
\* GetPosition without the check of ctrl.Paused
GetPositionWith_IgnoresPause(p) ==
    IF ~p THEN currentPos
    ELSE Min(currentPos + (now - startTime), duration)

\* GetPosition, reading ap.playing as p (Stop calls it after clearing the flag)
GetPositionWith(p) ==
    IF ~ctrl.nil /\ ctrl.Paused THEN currentPos
    ELSE IF ~p THEN currentPos
    ELSE Min(currentPos + (now - startTime), duration)

GetPositionValue == GetPositionWith(playing)

GetPosition ==
    /\ UNCHANGED <<speakerInits, lockVars, appVars, i, input>>
    /\ pc = "idle"
    /\ ret' = Ret("GetPosition", "none")
    /\ UNCHANGED <<apVars, envVars, pc, call>>

\* ---------------------------------------------------------------- HasEnded
IsCompleted == ~completionStream.nil /\ completionStream.completed

HasEndedValue ==
    IF duration = 0 \/ ~playing THEN FALSE
    ELSE IF IsCompleted THEN TRUE
    ELSE IF GetPositionValue >= duration THEN TRUE
    ELSE hasEnded

\* HasEnded without the assignments ap.hasEnded = true
HasEndedLatch_None == hasEnded

\* the value HasEnded leaves in ap.hasEnded
HasEndedLatch ==
    IF duration = 0 \/ ~playing THEN hasEnded
    ELSE IF IsCompleted \/ GetPositionValue >= duration THEN TRUE
    ELSE hasEnded

HasEnded ==
    /\ UNCHANGED <<speakerInits, lockVars, appVars, i, input>>
    /\ pc = "idle"
    /\ hasEnded' = HasEndedLatch
    /\ ret' = Ret("HasEnded", "none")
    /\ UNCHANGED <<streamer, ctrl, format, playing, file, duration, currentPos,
                   startTime, completionStream, speakerInitialized,
                   envVars, pc, call>>

\* ----------------------------------------------------------------- speaker
\* a speaker.Clear() that leaves the mixer as it is
SpeakerClear_Noop == mixer

\* speaker.Clear(): the mixer afterwards
SpeakerClear == {}

\* -------------------------------------------------------------------- Play
\* Play and Seek without the check for a loaded track
NoTrackLoaded_Unchecked == FALSE

\* if ap.streamer == nil
NoTrackLoaded == streamer = NIL

\* Play without a new time anchor
PlayStartTime_Stale == startTime

\* ap.startTime = time.Now()
PlayStartTime == now

Play ==
    /\ UNCHANGED <<speakerInits, lockVars, appVars, i, input>>
    /\ pc = "idle"
    /\ IF NoTrackLoaded
       THEN /\ ret' = Ret("Play", "NoTrackLoaded")
            /\ UNCHANGED <<apVars, envVars>>
       ELSE IF playing
       THEN /\ ret' = Ret("Play", "none")
            /\ UNCHANGED <<apVars, envVars>>
       ELSE /\ completionStream' = [nil |-> FALSE, completed |-> FALSE]
            /\ ctrl' = [nil |-> FALSE, Paused |-> FALSE]
            /\ startTime' = PlayStartTime
            /\ currentPos' = 0
            \* speaker.Clear() and then speaker.Play(ap.ctrl)
            /\ mixer' = SpeakerClear \cup {streamer}
            /\ playing' = TRUE
            /\ ret' = Ret("Play", "none")
            /\ UNCHANGED <<streamer, format, file, duration, hasEnded,
                           speakerInitialized, deviceRate, openStreams,
                           openFiles, streamPos, now>>
    /\ UNCHANGED <<pc, call>>

\* ------------------------------------------------------------ Pause, Resume
IsPaused == ~ctrl.nil /\ ctrl.Paused

IsPlaying == playing /\ ~IsPaused

\* ap.currentPos += time.Since(ap.startTime)
PauseCurrentPos == currentPos + (now - startTime)

Pause ==
    /\ UNCHANGED <<speakerInits, lockVars, appVars, i, input>>
    /\ pc = "idle"
    /\ IF ~ctrl.nil /\ playing
       THEN /\ PauseCurrentPos <= MaxPos
            /\ ctrl' = [ctrl EXCEPT !.Paused = TRUE]
            /\ currentPos' = PauseCurrentPos
       ELSE UNCHANGED <<ctrl, currentPos>>
    /\ ret' = Ret("Pause", "none")
    /\ UNCHANGED <<streamer, format, playing, file, duration, startTime,
                   hasEnded, completionStream, speakerInitialized,
                   envVars, pc, call>>

Resume ==
    /\ UNCHANGED <<speakerInits, lockVars, appVars, i, input>>
    /\ pc = "idle"
    /\ IF ~ctrl.nil /\ playing
       THEN /\ ctrl' = [ctrl EXCEPT !.Paused = FALSE]
            /\ startTime' = now
       ELSE UNCHANGED <<ctrl, startTime>>
    /\ ret' = Ret("Resume", "none")
    /\ UNCHANGED <<streamer, format, playing, file, duration, currentPos,
                   hasEnded, completionStream, speakerInitialized,
                   envVars, pc, call>>

\* -------------------------------------------------------------------- Seek
\* streamer.Seek(samples) of the beep decoders: positions outside
\* [0, Len()] are rejected
StreamSeekOk(samples) == 0 <= samples /\ samples <= StreamLen[streamer]

Seek(pos) ==
    /\ UNCHANGED <<speakerInits, lockVars, appVars, i, input>>
    /\ pc = "idle"
    /\ IF NoTrackLoaded
       THEN /\ ret' = Ret("Seek", "NoTrackLoaded")
            /\ UNCHANGED <<currentPos, streamPos>>
       ELSE \E ioOk \in BOOLEAN :
              IF ioOk /\ StreamSeekOk(RateN(format, pos))
              THEN /\ streamPos' = RateN(format, pos)
                   /\ currentPos' = pos
                   /\ ret' = Ret("Seek", "none")
              ELSE /\ ret' = Ret("Seek", "SeekFailed")
                   /\ UNCHANGED <<currentPos, streamPos>>
    /\ UNCHANGED <<streamer, ctrl, format, playing, file, duration, startTime,
                   hasEnded, completionStream, speakerInitialized,
                   mixer, deviceRate, openStreams, openFiles, now, pc, call>>

\* -------------------------------------------------------------------- Stop
\* StopClear without the speaker.Clear(): the stream stays in the mixer
StopClear_NoSpeakerClear ==
    IF playing
    THEN /\ playing' = FALSE
         /\ hasEnded' = FALSE
         /\ currentPos' = IF ~ctrl.nil /\ ~ctrl.Paused
                          THEN GetPositionWith(FALSE)
                          ELSE currentPos
         /\ UNCHANGED mixer
    ELSE UNCHANGED <<mixer, playing, hasEnded, currentPos>>

\* Stop up to the resource clean-up: clear the speaker, sleep, reset the flags
StopClear ==
    IF playing
    THEN /\ mixer' = SpeakerClear
         /\ playing' = FALSE
         /\ hasEnded' = FALSE
         /\ currentPos' = IF ~ctrl.nil /\ ~ctrl.Paused
                          THEN GetPositionWith(FALSE)
                          ELSE currentPos
    ELSE UNCHANGED <<mixer, playing, hasEnded, currentPos>>

\* the frame of the first half of Stop
StopClearFrame ==
    UNCHANGED <<streamer, ctrl, format, file, duration, startTime,
                completionStream, speakerInitialized, deviceRate, openStreams,
                openFiles, streamPos, now, ret, speakerInits, lockVars,
                appVars, i, input>>

Stop ==
    /\ pc = "idle"
    /\ StopClear
    /\ StopClearFrame
    /\ pc' = "stop_release"
    /\ call' = [op |-> "Stop", arg |-> NIL]

\* the decoder's Close also closes the file it reads from
StreamerClose(st, files) == IF st = NIL THEN files ELSE files \ {st}

FileClose(f, files) == IF f = NIL THEN files ELSE files \ {f}

\* Stop from "Clean up resources" on: close the decoder and the file, drop
\* the references; then return, or continue in the caller
StopRelease ==
    /\ UNCHANGED <<speakerInits, lockVars, appVars, i, input>>
    /\ pc = "stop_release"
    /\ openStreams' = IF streamer = NIL THEN openStreams
                      ELSE openStreams \ {streamer}
    /\ openFiles' = FileClose(file, StreamerClose(streamer, openFiles))
    /\ streamer' = NIL
    /\ file' = NIL
    /\ ctrl' = NilCtrl
    /\ completionStream' = NilCompletion
    /\ IF call.op = "Stop"
       THEN /\ pc' = "idle"
            /\ call' = NoCall
            /\ ret' = Ret("Stop", "none")
       ELSE /\ pc' = IF call.op = "LoadTrack" THEN "load_open" ELSE "close_clear"
            /\ UNCHANGED <<call, ret>>
    /\ UNCHANGED <<format, playing, duration, currentPos, startTime, hasEnded,
                   speakerInitialized, mixer, deviceRate, streamPos, now>>

\* ------------------------------------------------------------------- Close
Close ==
    /\ pc = "idle"
    /\ StopClear
    /\ StopClearFrame
    /\ pc' = "stop_release"
    /\ call' = [op |-> "Close", arg |-> NIL]

\* Close after Stop: clear the speaker once more, forget the initialisation
CloseClear ==
    /\ UNCHANGED <<lockVars, appVars, i, input>>
    /\ pc = "close_clear"
    /\ mixer' = SpeakerClear
    /\ speakerInitialized' = FALSE
    /\ speakerInits' = 0
    /\ pc' = "idle"
    /\ call' = NoCall
    /\ ret' = Ret("Close", "none")
    /\ UNCHANGED <<streamer, ctrl, format, playing, file, duration, currentPos,
                   startTime, hasEnded, completionStream, deviceRate,
                   openStreams, openFiles, streamPos, now>>

\* --------------------------------------------------------------- LoadTrack
\* LoadTrack without the ap.Stop() it starts with
LoadTrack_NoStop(t) ==
    /\ UNCHANGED <<speakerInits, lockVars, appVars, i, input>>
    /\ pc = "idle"
    /\ pc' = "load_open"
    /\ call' = [op |-> "LoadTrack", arg |-> t]
    /\ UNCHANGED <<apVars, envVars, ret>>

LoadTrack(t) ==
    /\ pc = "idle"
    /\ StopClear
    /\ StopClearFrame
    /\ pc' = "stop_release"
    /\ call' = [op |-> "LoadTrack", arg |-> t]

\* what the file system, the decoder and the audio device answer
LoadOutcomes == {"ok", "open_fail", "seek_fail", "decode_fail", "init_fail"}

\* a LoadTrack that calls speaker.Init whatever the flag says
NeedsSpeakerInit_Always == TRUE

\* "Initialize speaker only once per application lifecycle"
NeedsSpeakerInit == ~speakerInitialized

LoadReturn(err) ==
    /\ pc' = "idle"
    /\ call' = NoCall
    /\ ret' = Ret("LoadTrack", err)

\* LoadTrack after Stop: open, rewind, decode, set the duration, initialise
\* the speaker once
LoadOpen ==
    /\ UNCHANGED <<lockVars, appVars, i, input>>
    /\ pc = "load_open"
    /\ \E outcome \in LoadOutcomes :
         LET t == call.arg IN
         IF outcome = "open_fail"
         THEN /\ LoadReturn("OpenFailed")
              /\ UNCHANGED <<apVars, envVars, speakerInits>>
         ELSE IF outcome = "seek_fail"
         THEN /\ file' = t
              /\ openFiles' = openFiles \cup {t}
              /\ LoadReturn("FileSeekFailed")
              /\ UNCHANGED <<streamer, ctrl, format, playing, duration,
                             currentPos, startTime, hasEnded, completionStream,
                             speakerInitialized, mixer, deviceRate, openStreams,
                             streamPos, now, speakerInits>>
         ELSE IF ToLower(Ext[t]) \notin DecoderExts
         THEN /\ file' = t
              /\ openFiles' = openFiles \cup {t}
              /\ LoadReturn("UnsupportedFormat")
              /\ UNCHANGED <<streamer, ctrl, format, playing, duration,
                             currentPos, startTime, hasEnded, completionStream,
                             speakerInitialized, mixer, deviceRate, openStreams,
                             streamPos, now, speakerInits>>
         ELSE IF outcome = "decode_fail"
         THEN /\ file' = t
              /\ openFiles' = FileClose(t, openFiles \cup {t})
              /\ LoadReturn("DecodeFailure")
              /\ UNCHANGED <<streamer, ctrl, format, playing, duration,
                             currentPos, startTime, hasEnded, completionStream,
                             speakerInitialized, mixer, deviceRate, openStreams,
                             streamPos, now, speakerInits>>
         ELSE /\ file' = t
              /\ openFiles' = openFiles \cup {t}
              /\ streamer' = t
              /\ openStreams' = openStreams \cup {t}
              /\ streamPos' = 0
              /\ format' = SampleRate[t]
              /\ duration' = RateD(SampleRate[t], StreamLen[t])
              /\ currentPos' = 0
              /\ IF ~NeedsSpeakerInit
                 THEN /\ LoadReturn("none")
                      /\ UNCHANGED <<speakerInitialized, deviceRate, speakerInits>>
                 ELSE IF outcome = "init_fail"
                 THEN /\ LoadReturn("DeviceInitFailure")
                      /\ UNCHANGED <<speakerInitialized, deviceRate, speakerInits>>
                 ELSE /\ speakerInitialized' = TRUE
                      /\ deviceRate' = SampleRate[t]
                      /\ speakerInits' = speakerInits + 1
                      /\ LoadReturn("none")
              /\ UNCHANGED <<ctrl, playing, startTime, hasEnded,
                             completionStream, mixer, now>>

\* -------------------------------------------------------- the render thread
\* One pull of the speaker, under the speaker lock, from a stream in the
\* mixer: beep.Ctrl.Stream, then CompletionStreamer.Stream, then the decoder.
\* The pull takes one buffer (a tenth of a second at the device rate); a
\* stream that reports no more frames is marked completed and dropped.
Render ==
    /\ UNCHANGED <<speakerInits, lockVars, appVars, i, input>>
    /\ deviceRate > 0
    /\ \E s \in mixer :
         IF s = streamer /\ s \in openStreams /\ ~ctrl.nil
         THEN /\ ~ctrl.Paused
              /\ IF streamPos < StreamLen[s]
                 THEN /\ streamPos' = Min(streamPos + deviceRate, StreamLen[s])
                      /\ UNCHANGED <<completionStream, mixer>>
                 ELSE /\ completionStream' = [completionStream EXCEPT !.completed = TRUE]
                      /\ mixer' = mixer \ {s}
                      /\ UNCHANGED streamPos
         ELSE \* a stream that is no longer the player's: the read fails
              /\ mixer' = mixer \ {s}
              /\ UNCHANGED <<completionStream, streamPos>>
    /\ UNCHANGED <<streamer, ctrl, format, playing, file, duration, currentPos,
                   startTime, hasEnded, speakerInitialized, deviceRate,
                   openStreams, openFiles, now, ctlVars>>

\* ------------------------------------------------------------------- clock
Tick ==
    /\ UNCHANGED <<speakerInits, lockVars, appVars, i, input>>
    /\ now < MaxTime
    /\ now' = now + 1
    /\ UNCHANGED <<apVars, mixer, deviceRate, openStreams, openFiles,
                   streamPos, ctlVars>>

Next ==
    \/ \E t \in Tracks : LoadTrack(t)
    \/ LoadOpen
    \/ Play
    \/ Pause
    \/ Resume
    \/ Stop
    \/ StopRelease
    \/ Close
    \/ CloseClear
    \/ GetPosition
    \/ \E pos \in SeekArgs : Seek(pos)
    \/ HasEnded
    \/ Render
    \/ Tick

Spec == Init /\ [][Next]_vars

\* ------------------------------------------- callers on several threads
\* Pause, Resume, GetPosition and Stop called from several threads at once,
\* statement by statement, on a player that LoadTrack and Play have started.
\* speaker.Lock() is the mutex the render thread pulls under.
LockTracks == {"a.mp3", "b.OGG"}

LockInit ==
    \E t \in LockTracks :
        /\ streamer = t
        /\ ctrl = [nil |-> FALSE, Paused |-> FALSE]
        /\ format = SampleRate[t]
        /\ playing = TRUE
        /\ file = t
        /\ duration = RateD(SampleRate[t], StreamLen[t])
        /\ currentPos = 0
        /\ startTime = 0
        /\ hasEnded = FALSE
        /\ completionStream = [nil |-> FALSE, completed |-> FALSE]
        /\ speakerInitialized = TRUE
        /\ mixer = {t}
        /\ deviceRate = SampleRate[t]
        /\ openStreams = {t}
        /\ openFiles = {t}
        /\ streamPos = 0
        /\ now = 0
        /\ pc = "idle"
        /\ call = NoCall
        /\ ret = Ret("Play", "none")
        /\ speakerInits = 1
        /\ lock = 0
        /\ thr = [u \in Threads |-> IdleThread]
        /\ NoApp

At(t, p) == thr[t].pc = p

Goto(t, p, v) == thr' = [thr EXCEPT ![t] = [pc |-> p, v |-> v]]

\* what no statement of Pause, Resume, GetPosition or Stop touches
LockFrame ==
    UNCHANGED <<format, duration, speakerInitialized, deviceRate, streamPos,
                now, ctlVars, speakerInits, appVars, i, input>>

\* Pause: the test before the lock
PauseEnter(t) ==
    /\ At(t, "idle")
    /\ IF ~ctrl.nil /\ playing
       THEN Goto(t, "pause_lock", 0)
       ELSE UNCHANGED thr
    /\ LockFrame
    /\ UNCHANGED <<streamer, ctrl, playing, file, currentPos, startTime,
                   hasEnded, completionStream, mixer, openStreams, openFiles,
                   lock>>

\* speaker.Lock()
PauseLock(t) ==
    /\ At(t, "pause_lock")
    /\ lock = 0
    /\ lock' = t
    /\ Goto(t, "pause_flag", 0)
    /\ LockFrame
    /\ UNCHANGED <<streamer, ctrl, playing, file, currentPos, startTime,
                   hasEnded, completionStream, mixer, openStreams, openFiles>>

\* ap.ctrl.Paused = true; a nil ap.ctrl panics
PauseFlag(t) ==
    /\ At(t, "pause_flag")
    /\ IF ctrl.nil
       THEN /\ Goto(t, "panic", 0)
            /\ UNCHANGED ctrl
       ELSE /\ ctrl' = [ctrl EXCEPT !.Paused = TRUE]
            /\ Goto(t, "pause_pos", 0)
    /\ LockFrame
    /\ UNCHANGED <<streamer, playing, file, currentPos, startTime, hasEnded,
                   completionStream, mixer, openStreams, openFiles, lock>>

\* ap.currentPos += time.Since(ap.startTime); speaker.Unlock()
PausePos(t) ==
    /\ At(t, "pause_pos")
    /\ PauseCurrentPos <= MaxPos
    /\ currentPos' = PauseCurrentPos
    /\ lock' = 0
    /\ Goto(t, "idle", 0)
    /\ LockFrame
    /\ UNCHANGED <<streamer, ctrl, playing, file, startTime, hasEnded,
                   completionStream, mixer, openStreams, openFiles>>

\* Resume: the test before the lock
ResumeEnter(t) ==
    /\ At(t, "idle")
    /\ IF ~ctrl.nil /\ playing
       THEN Goto(t, "resume_lock", 0)
       ELSE UNCHANGED thr
    /\ LockFrame
    /\ UNCHANGED <<streamer, ctrl, playing, file, currentPos, startTime,
                   hasEnded, completionStream, mixer, openStreams, openFiles,
                   lock>>

\* speaker.Lock()
ResumeLock(t) ==
    /\ At(t, "resume_lock")
    /\ lock = 0
    /\ lock' = t
    /\ Goto(t, "resume_flag", 0)
    /\ LockFrame
    /\ UNCHANGED <<streamer, ctrl, playing, file, currentPos, startTime,
                   hasEnded, completionStream, mixer, openStreams, openFiles>>

\* ap.ctrl.Paused = false; a nil ap.ctrl panics
ResumeFlag(t) ==
    /\ At(t, "resume_flag")
    /\ IF ctrl.nil
       THEN /\ Goto(t, "panic", 0)
            /\ UNCHANGED ctrl
       ELSE /\ ctrl' = [ctrl EXCEPT !.Paused = FALSE]
            /\ Goto(t, "resume_anchor", 0)
    /\ LockFrame
    /\ UNCHANGED <<streamer, playing, file, currentPos, startTime, hasEnded,
                   completionStream, mixer, openStreams, openFiles, lock>>

\* ap.startTime = time.Now(); speaker.Unlock()
ResumeAnchor(t) ==
    /\ At(t, "resume_anchor")
    /\ startTime' = now
    /\ lock' = 0
    /\ Goto(t, "idle", 0)
    /\ LockFrame
    /\ UNCHANGED <<streamer, ctrl, playing, file, currentPos, hasEnded,
                   completionStream, mixer, openStreams, openFiles>>

\* GetPosition: speaker.Lock()
GetPositionLock(t) ==
    /\ At(t, "idle")
    /\ lock = 0
    /\ lock' = t
    /\ Goto(t, "getpos_read", 0)
    /\ LockFrame
    /\ UNCHANGED <<streamer, ctrl, playing, file, currentPos, startTime,
                   hasEnded, completionStream, mixer, openStreams, openFiles>>

\* GetPosition: the reads, the return and the deferred speaker.Unlock()
GetPositionRead(t) ==
    /\ At(t, "getpos_read")
    /\ lock' = 0
    /\ Goto(t, "idle", GetPositionValue)
    /\ LockFrame
    /\ UNCHANGED <<streamer, ctrl, playing, file, currentPos, startTime,
                   hasEnded, completionStream, mixer, openStreams, openFiles>>

\* Stop: the test of ap.playing and speaker.Clear(), which takes the lock
StopEnter(t) ==
    /\ At(t, "idle")
    /\ IF playing
       THEN /\ lock = 0
            /\ mixer' = SpeakerClear
            /\ Goto(t, "stop_sleep", 0)
       ELSE /\ Goto(t, "stop_release", 0)
            /\ UNCHANGED mixer
    /\ LockFrame
    /\ UNCHANGED <<streamer, ctrl, playing, file, currentPos, startTime,
                   hasEnded, completionStream, openStreams, openFiles, lock>>

\* after the sleep: ap.playing = false; ap.hasEnded = false
StopFlags(t) ==
    /\ At(t, "stop_sleep")
    /\ playing' = FALSE
    /\ hasEnded' = FALSE
    /\ Goto(t, "stop_paused", 0)
    /\ LockFrame
    /\ UNCHANGED <<streamer, ctrl, file, currentPos, startTime,
                   completionStream, mixer, openStreams, openFiles, lock>>

\* if ap.ctrl != nil && !ap.ctrl.Paused, read without the lock
StopPaused(t) ==
    /\ At(t, "stop_paused")
    /\ IF ~ctrl.nil /\ ~ctrl.Paused
       THEN Goto(t, "stop_getpos", 0)
       ELSE Goto(t, "stop_release", 0)
    /\ LockFrame
    /\ UNCHANGED <<streamer, ctrl, playing, file, currentPos, startTime,
                   hasEnded, completionStream, mixer, openStreams, openFiles,
                   lock>>

\* the call ap.GetPosition(), which takes and gives back the lock
StopGetPosition(t) ==
    /\ At(t, "stop_getpos")
    /\ lock = 0
    /\ Goto(t, "stop_store", GetPositionValue)
    /\ LockFrame
    /\ UNCHANGED <<streamer, ctrl, playing, file, currentPos, startTime,
                   hasEnded, completionStream, mixer, openStreams, openFiles,
                   lock>>

\* ap.currentPos = the value GetPosition returned, written without the lock
StopStore(t) ==
    /\ At(t, "stop_store")
    /\ currentPos' = thr[t].v
    /\ Goto(t, "stop_release", 0)
    /\ LockFrame
    /\ UNCHANGED <<streamer, ctrl, playing, file, startTime, hasEnded,
                   completionStream, mixer, openStreams, openFiles, lock>>

\* Stop: close the streamer and the file, drop ctrl and completionStream
StopCleanup(t) ==
    /\ At(t, "stop_release")
    /\ openStreams' = IF streamer = NIL THEN openStreams
                      ELSE openStreams \ {streamer}
    /\ openFiles' = FileClose(file, StreamerClose(streamer, openFiles))
    /\ streamer' = NIL
    /\ file' = NIL
    /\ ctrl' = NilCtrl
    /\ completionStream' = NilCompletion
    /\ Goto(t, "idle", 0)
    /\ LockFrame
    /\ UNCHANGED <<playing, currentPos, startTime, hasEnded, mixer, lock>>

\* the render thread pulls under the speaker's mutex
LockedRender ==
    /\ lock = 0
    /\ Render

LockNext ==
    \/ \E t \in Threads :
         \/ PauseEnter(t)
         \/ PauseLock(t)
         \/ PauseFlag(t)
         \/ PausePos(t)
         \/ ResumeEnter(t)
         \/ ResumeLock(t)
         \/ ResumeFlag(t)
         \/ ResumeAnchor(t)
         \/ GetPositionLock(t)
         \/ GetPositionRead(t)
         \/ StopEnter(t)
         \/ StopFlags(t)
         \/ StopPaused(t)
         \/ StopGetPosition(t)
         \/ StopStore(t)
         \/ StopCleanup(t)
    \/ LockedRender
    \/ Tick

LockSpec == LockInit /\ [][LockNext]_vars


\* ---------------------------------------------------------- shufflePlaylist
\* the slice with the elements at (0-based) a and b exchanged, a missing
\* second assignment
Swap_Overwrite(s, a, b) == [s EXCEPT ![a + 1] = s[b + 1]]

\* playlist[i], playlist[j] = playlist[j], playlist[i]
Swap(s, a, b) == [s EXCEPT ![a + 1] = s[b + 1], ![b + 1] = s[a + 1]]

\* the slices of at most MaxLen paths
ShuffleInputs == UNION {[1..n -> Tracks] : n \in 0..MaxLen}

\* the call shufflePlaylist(playlist), at the head of the loop
ShuffleInit ==
    /\ PlayerInit
    /\ NoModel
    /\ input \in ShuffleInputs
    /\ playlist = input
    /\ i = Len(input) - 1

\* one round of the loop: j := r.Intn(i + 1), swap, i--
ShuffleStep ==
    /\ i > 0
    /\ \E j \in 0..i : playlist' = Swap(playlist, i, j)
    /\ i' = i - 1
    /\ UNCHANGED <<apVars, envVars, ctlVars, speakerInits, lockVars, input,
                   currentIndex, mPlaying, mPaused, loads, nTick,
                   nEnded, nLoaded, quit>>

ShuffleNext == ShuffleStep

ShuffleSpec == ShuffleInit /\ [][ShuffleNext]_vars

\* ------------------------------------------------------------ PlayerModel
\* The TUI around the player. Update handles one message at a time; the
\* commands it returns (the load command, the timers) run on goroutines of
\* their own and hand their message to Update when they are done. A call of
\* the player is one step here, and LoadTrack is two: its Stop, and the rest.
\* The wall clock stands still: a track ends when its stream is drained.
AppPlaylist == <<"b.OGG", "a.mp3", "c.m4a">>

\* the player's own state, as the calls below leave it alone
PlayerFrame == UNCHANGED <<apVars, envVars, speakerInits>>

\* what no step of the application touches
AppFrame == UNCHANGED <<ctlVars, lockVars, shuffleVars, playlist>>

\* ap.Stop() as one step
StopCall ==
    /\ StopClear
    /\ openStreams' = IF streamer = NIL THEN openStreams
                      ELSE openStreams \ {streamer}
    /\ openFiles' = FileClose(file, StreamerClose(streamer, openFiles))
    /\ streamer' = NIL
    /\ file' = NIL
    /\ ctrl' = NilCtrl
    /\ completionStream' = NilCompletion
    /\ UNCHANGED <<format, duration, startTime, speakerInitialized, deviceRate,
                   streamPos, now, speakerInits>>

\* the error of the part of LoadTrack after its Stop
OpenErr(t, outcome) ==
    IF outcome = "open_fail" THEN "OpenFailed"
    ELSE IF outcome = "seek_fail" THEN "FileSeekFailed"
    ELSE IF ToLower(Ext[t]) \notin DecoderExts THEN "UnsupportedFormat"
    ELSE IF outcome = "decode_fail" THEN "DecodeFailure"
    ELSE IF NeedsSpeakerInit /\ outcome = "init_fail" THEN "DeviceInitFailure"
    ELSE "none"

\* the part of LoadTrack after its Stop
OpenCall(t, outcome) ==
    LET err == OpenErr(t, outcome) IN
    IF err = "OpenFailed"
    THEN PlayerFrame
    ELSE IF err \in {"FileSeekFailed", "UnsupportedFormat"}
    THEN /\ file' = t
         /\ openFiles' = openFiles \cup {t}
         /\ UNCHANGED <<streamer, ctrl, format, playing, duration, currentPos,
                        startTime, hasEnded, completionStream,
                        speakerInitialized, mixer, deviceRate, openStreams,
                        streamPos, now, speakerInits>>
    ELSE IF err = "DecodeFailure"
    THEN /\ file' = t
         /\ openFiles' = FileClose(t, openFiles \cup {t})
         /\ UNCHANGED <<streamer, ctrl, format, playing, duration, currentPos,
                        startTime, hasEnded, completionStream,
                        speakerInitialized, mixer, deviceRate, openStreams,
                        streamPos, now, speakerInits>>
    ELSE /\ file' = t
         /\ openFiles' = openFiles \cup {t}
         /\ streamer' = t
         /\ openStreams' = openStreams \cup {t}
         /\ streamPos' = 0
         /\ format' = SampleRate[t]
         /\ duration' = RateD(SampleRate[t], StreamLen[t])
         /\ currentPos' = 0
         /\ IF NeedsSpeakerInit /\ err = "none"
            THEN /\ speakerInitialized' = TRUE
                 /\ deviceRate' = SampleRate[t]
                 /\ speakerInits' = speakerInits + 1
            ELSE UNCHANGED <<speakerInitialized, deviceRate, speakerInits>>
         /\ UNCHANGED <<ctrl, playing, startTime, hasEnded, completionStream,
                        mixer, now>>

\* ap.Play() as one step
PlayCall ==
    IF NoTrackLoaded \/ playing
    THEN PlayerFrame
    ELSE /\ completionStream' = [nil |-> FALSE, completed |-> FALSE]
         /\ ctrl' = [nil |-> FALSE, Paused |-> FALSE]
         /\ startTime' = PlayStartTime
         /\ currentPos' = 0
         /\ mixer' = SpeakerClear \cup {streamer}
         /\ playing' = TRUE
         /\ UNCHANGED <<streamer, format, file, duration, hasEnded,
                        speakerInitialized, deviceRate, openStreams,
                        openFiles, streamPos, now, speakerInits>>

\* ap.Pause() as one step
PauseCall ==
    /\ IF ~ctrl.nil /\ playing
       THEN /\ PauseCurrentPos <= MaxPos
            /\ ctrl' = [ctrl EXCEPT !.Paused = TRUE]
            /\ currentPos' = PauseCurrentPos
       ELSE UNCHANGED <<ctrl, currentPos>>
    /\ UNCHANGED <<streamer, format, playing, file, duration, startTime,
                   hasEnded, completionStream, speakerInitialized, envVars,
                   speakerInits>>

\* ap.Resume() as one step
ResumeCall ==
    /\ IF ~ctrl.nil /\ playing
       THEN /\ ctrl' = [ctrl EXCEPT !.Paused = FALSE]
            /\ startTime' = now
       ELSE UNCHANGED <<ctrl, startTime>>
    /\ UNCHANGED <<streamer, format, playing, file, duration, currentPos,
                   hasEnded, completionStream, speakerInitialized, envVars,
                   speakerInits>>

\* ap.HasEnded() as one step; its value is HasEndedValue
HasEndedCall ==
    /\ hasEnded' = HasEndedLatch
    /\ UNCHANGED <<streamer, ctrl, format, playing, file, duration, currentPos,
                   startTime, completionStream, speakerInitialized, envVars,
                   speakerInits>>

\* ap.Close() as one step
CloseCall ==
    /\ IF playing
       THEN /\ playing' = FALSE
            /\ hasEnded' = FALSE
            /\ currentPos' = IF ~ctrl.nil /\ ~ctrl.Paused
                             THEN GetPositionWith(FALSE)
                             ELSE currentPos
       ELSE UNCHANGED <<playing, hasEnded, currentPos>>
    /\ mixer' = SpeakerClear
    /\ openStreams' = IF streamer = NIL THEN openStreams
                      ELSE openStreams \ {streamer}
    /\ openFiles' = FileClose(file, StreamerClose(streamer, openFiles))
    /\ streamer' = NIL
    /\ file' = NIL
    /\ ctrl' = NilCtrl
    /\ completionStream' = NilCompletion
    /\ speakerInitialized' = FALSE
    /\ speakerInits' = 0
    /\ UNCHANGED <<format, duration, startTime, deviceRate, streamPos, now>>

\* NewPlayerModel and Init: the first load command and the first timer
AppInit ==
    /\ PlayerInit
    /\ NoShuffle
    /\ playlist = AppPlaylist
    /\ currentIndex = 0
    /\ mPlaying = FALSE
    /\ mPaused = FALSE
    /\ loads = [g \in LoadSlots |->
                  IF g = 1 THEN [st |-> "start", t |-> NIL] ELSE FreeSlot]
    /\ nTick = 1
    /\ nEnded = 0
    /\ nLoaded = 0
    /\ quit = FALSE

LoadsInFlight == {g \in LoadSlots : loads[g].st # "free"}

CanSpawn == LoadsInFlight # LoadSlots

\* return m, m.loadCurrentTrack(): one more load command in flight
SpawnLoad ==
    LET g == CHOOSE f \in LoadSlots :
                 /\ loads[f].st = "free"
                 /\ \A h \in LoadSlots : loads[h].st = "free" => f <= h
    IN loads' = [loads EXCEPT ![g] = [st |-> "start", t |-> NIL]]

\* m.currentIndex++ without the wrap to 0
NextIndex_NoWrap(k) == k + 1

\* m.currentIndex++, back to 0 after the last track
NextIndex(k) == IF k + 1 >= Len(playlist) THEN 0 ELSE k + 1

\* m.currentIndex--, to the last track before the first
PrevIndex(k) == IF k - 1 < 0 THEN Len(playlist) - 1 ELSE k - 1

\* key " "
KeySpace ==
    /\ ~quit
    /\ IF mPlaying
       THEN IF mPaused
            THEN /\ nTick < MaxMsgs
                 /\ ResumeCall
                 /\ mPaused' = FALSE
                 /\ nTick' = nTick + 1
            ELSE /\ PauseCall
                 /\ mPaused' = TRUE
                 /\ UNCHANGED nTick
       ELSE /\ PlayerFrame
            /\ UNCHANGED <<mPaused, nTick>>
    /\ UNCHANGED <<currentIndex, mPlaying, loads, nEnded, nLoaded,
                   quit>>
    /\ AppFrame

\* key "left"
KeyLeft ==
    /\ ~quit
    /\ CanSpawn
    /\ StopCall
    /\ currentIndex' = PrevIndex(currentIndex)
    /\ SpawnLoad
    /\ UNCHANGED <<mPlaying, mPaused, nTick, nEnded, nLoaded, quit>>
    /\ AppFrame

\* key "right"
KeyRight ==
    /\ ~quit
    /\ CanSpawn
    /\ StopCall
    /\ currentIndex' = NextIndex(currentIndex)
    /\ SpawnLoad
    /\ UNCHANGED <<mPlaying, mPaused, nTick, nEnded, nLoaded, quit>>
    /\ AppFrame

\* keys "q", "esc", "ctrl+c": Close, then tea.Quit ends the program with
\* its commands and timers
KeyQuit ==
    /\ ~quit
    /\ CloseCall
    /\ quit' = TRUE
    /\ loads' = [g \in LoadSlots |-> FreeSlot]
    /\ nTick' = 0
    /\ nEnded' = 0
    /\ nLoaded' = 0
    /\ UNCHANGED <<currentIndex, mPlaying, mPaused>>
    /\ AppFrame

\* tickMsg
TickMsg ==
    /\ ~quit
    /\ nTick > 0
    /\ IF mPlaying
       THEN /\ HasEndedCall
            /\ IF HasEndedValue
               THEN /\ nEnded < MaxMsgs
                    /\ nEnded' = nEnded + 1
                    /\ nTick' = nTick - 1
               ELSE /\ nTick' = IF ~mPaused THEN nTick ELSE nTick - 1
                    /\ UNCHANGED nEnded
       ELSE /\ PlayerFrame
            /\ nTick' = nTick - 1
            /\ UNCHANGED nEnded
    /\ UNCHANGED <<currentIndex, mPlaying, mPaused, loads, nLoaded,
                   quit>>
    /\ AppFrame

\* trackEndedMsg
TrackEndedMsg ==
    /\ ~quit
    /\ nEnded > 0
    /\ CanSpawn
    /\ StopCall
    /\ currentIndex' = NextIndex(currentIndex)
    /\ SpawnLoad
    /\ nEnded' = nEnded - 1
    /\ UNCHANGED <<mPlaying, mPaused, nTick, nLoaded, quit>>
    /\ AppFrame

\* trackLoadedMsg
TrackLoadedMsg ==
    /\ ~quit
    /\ nLoaded > 0
    /\ nTick < MaxMsgs
    /\ mPlaying' = TRUE
    /\ mPaused' = FALSE
    /\ nTick' = nTick + 1
    /\ nLoaded' = nLoaded - 1
    /\ PlayerFrame
    /\ UNCHANGED <<currentIndex, loads, nEnded, quit>>
    /\ AppFrame

\* the load command starts: it reads m.currentIndex now, and LoadTrack
\* begins with ap.Stop()
GoStart(g) ==
    /\ ~quit
    /\ loads[g].st = "start"
    /\ IF currentIndex >= Len(playlist)
       THEN /\ loads' = [loads EXCEPT ![g] = FreeSlot]
            /\ PlayerFrame
       ELSE /\ loads' = [loads EXCEPT
                           ![g] = [st |-> "open", t |-> playlist[currentIndex + 1]]]
            /\ StopCall
    /\ UNCHANGED <<currentIndex, mPlaying, mPaused, nTick, nEnded,
                   nLoaded, quit>>
    /\ AppFrame

\* what the file system answers to the load command
AppOutcomes == {"ok", "open_fail"}

\* the rest of LoadTrack; an error goes back as playErrorMsg, which sets
\* m.err for View and nothing else
GoOpenWith(g, outcome) ==
    /\ ~quit
    /\ loads[g].st = "open"
    /\ OpenCall(loads[g].t, outcome)
    /\ IF OpenErr(loads[g].t, outcome) = "none"
       THEN loads' = [loads EXCEPT ![g] = [st |-> "play", t |-> NIL]]
       ELSE loads' = [loads EXCEPT ![g] = FreeSlot]
    /\ UNCHANGED <<currentIndex, mPlaying, mPaused, nTick, nEnded,
                   nLoaded, quit>>
    /\ AppFrame

GoOpen(g) == \E outcome \in AppOutcomes : GoOpenWith(g, outcome)

\* m.player.Play() of the load command, then trackLoadedMsg, or playErrorMsg
\* for its error
GoPlay(g) ==
    /\ ~quit
    /\ loads[g].st = "play"
    /\ PlayCall
    /\ loads' = [loads EXCEPT ![g] = FreeSlot]
    /\ IF NoTrackLoaded
       THEN UNCHANGED nLoaded
       ELSE /\ nLoaded < MaxMsgs
            /\ nLoaded' = nLoaded + 1
    /\ UNCHANGED <<currentIndex, mPlaying, mPaused, nTick, nEnded, quit>>
    /\ AppFrame

AppNext ==
    \/ KeySpace
    \/ KeyLeft
    \/ KeyRight
    \/ KeyQuit
    \/ TickMsg
    \/ TrackEndedMsg
    \/ TrackLoadedMsg
    \/ \E g \in LoadSlots : GoStart(g)
    \/ \E g \in LoadSlots : GoOpen(g)
    \/ \E g \in LoadSlots : GoPlay(g)
    \/ Render

AppSpec == AppInit /\ [][AppNext]_vars

\* The application left to itself: the user presses no key and every file of
\* the playlist can be opened.  The bubbletea runtime hands every pending
\* message to Update, every command's goroutine runs on, and the speaker
\* keeps pulling samples.
AutoNext ==
    \/ TickMsg
    \/ TrackEndedMsg
    \/ TrackLoadedMsg
    \/ \E g \in LoadSlots :
         \/ GoStart(g)
         \/ GoOpenWith(g, "ok")
         \/ GoPlay(g)
    \/ Render

AppLive ==
    /\ AppInit
    /\ [][AutoNext]_vars
    /\ WF_vars(TickMsg)
    /\ WF_vars(TrackEndedMsg)
    /\ WF_vars(TrackLoadedMsg)
    /\ \A g \in LoadSlots : WF_vars(GoStart(g))
    /\ \A g \in LoadSlots : WF_vars(GoOpenWith(g, "ok"))
    /\ \A g \in LoadSlots : WF_vars(GoPlay(g))
    /\ WF_vars(Render)

\* ------------------------------------------------------------ type checking
TypeOK ==
    /\ streamer \in Tracks \cup {NIL}
    /\ file \in Tracks \cup {NIL}
    /\ ctrl \in [nil : BOOLEAN, Paused : BOOLEAN]
    /\ completionStream \in [nil : BOOLEAN, completed : BOOLEAN]
    /\ playing \in BOOLEAN /\ hasEnded \in BOOLEAN /\ speakerInitialized \in BOOLEAN
    /\ format \in 0..2 /\ deviceRate \in 0..2
    /\ duration \in 0..4
    /\ currentPos \in 0..MaxPos
    /\ startTime \in 0..MaxTime /\ now \in 0..MaxTime
    /\ mixer \subseteq Tracks /\ openStreams \subseteq Tracks /\ openFiles \subseteq Tracks
    /\ streamPos \in 0..6
    /\ pc \in {"idle", "stop_release", "load_open", "close_clear"}
    /\ ret.err \in Errors
    /\ speakerInits \in 0..1
    /\ playlist \in Seq(Tracks) /\ input \in Seq(Tracks)
    /\ i \in (0 - 1)..MaxLen
    /\ currentIndex \in 0..2
    /\ mPlaying \in BOOLEAN /\ mPaused \in BOOLEAN
    /\ quit \in BOOLEAN
    /\ loads \in [LoadSlots -> [st : {"free", "start", "open", "play"},
                                 t : Tracks \cup {NIL}]]
    /\ nTick \in 0..MaxMsgs /\ nEnded \in 0..MaxMsgs
    /\ nLoaded \in 0..MaxMsgs
    /\ lock \in {0} \cup Threads
    /\ thr \in [Threads -> [pc : ThreadPcs, v : 0..MaxPos]]

\* ------------------------------------------------------------- properties

\* C1: the position GetPosition reports is always within [0, duration].
C1_PositionWithinDuration ==
    0 <= GetPositionValue /\ GetPositionValue <= duration

\* C2: a stream in the mixer is never a closed one, nor one whose file is
\* closed, and when Stop (alone or inside LoadTrack and Close) is about to
\* close the stream and the file, the speaker no longer holds that stream.
C2_NoCloseWhileAttached ==
    /\ mixer \subseteq openStreams
    /\ mixer \subseteq openFiles
    /\ pc = "stop_release" => (streamer \notin mixer /\ file \notin mixer)

\* a stream that was attached by Play and pulled from is about to be closed
C2_Witness ==
    /\ pc = "stop_release"
    /\ streamer # NIL
    /\ ret.op = "Play" /\ ret.err = "none"
    /\ streamPos > 0

\* C3: a Play that follows a successful LoadTrack leaves the position at 0
\* and the track not ended.
C3_LoadPlayStartsAtZero ==
    [][(Play /\ ret.op = "LoadTrack" /\ ret.err = "none")
         => (GetPositionValue' = 0 /\ ~HasEndedValue')]_vars

\* Play has just attached a loaded track, on a device that an earlier track
\* of another rate initialised, and no time has passed since
C3_Witness ==
    /\ ret.op = "Play" /\ ret.err = "none"
    /\ playing /\ mixer = {streamer}
    /\ startTime = now /\ now > 0
    /\ speakerInitialized /\ deviceRate > 0 /\ deviceRate # format
    /\ GetPositionValue = 0 /\ ~HasEndedValue

\* C4: while the player stays Playing, no step other than a Seek lowers
\* the position GetPosition reports.
C4_MonotonicWhilePlaying ==
    [][(IsPlaying /\ IsPlaying' /\ ~(\E pos \in SeekArgs : Seek(pos)))
         => GetPositionValue' >= GetPositionValue]_vars

\* C5: while paused, the passage of time, the render thread and the queries
\* themselves leave the position GetPosition reports unchanged.
C5_NoDriftWhilePaused ==
    [][(IsPaused /\ (Tick \/ Render \/ GetPosition \/ HasEnded))
         => GetPositionValue' = GetPositionValue]_vars

\* paused after some playback, GetPosition was the last call, and the clock
\* has run on since the pause
C5_Witness ==
    /\ IsPaused
    /\ ret.op = "GetPosition"
    /\ currentPos > 0
    /\ now > startTime + currentPos
    /\ GetPositionValue = currentPos

\* C6: Resume from Paused leaves the reported position where it was, and
\* each tick of Playing adds one tick to it, capped at the duration.
C6_ResumeContinues ==
    [][/\ (Resume /\ IsPaused) => GetPositionValue' = GetPositionValue
       /\ (Tick /\ IsPlaying)
            => GetPositionValue' = Min(GetPositionValue + 1, duration)]_vars

\* the bound nearest to pos in [0, duration]
Clamp(pos) == IF pos < 0 THEN 0 ELSE IF pos > duration THEN duration ELSE pos

\* C7: a Seek to a position outside [0, duration] on a loaded track returns
\* no error and sets the position to the nearest bound.
C7_SeekClamps ==
    [][\A pos \in SeekArgs :
         (Seek(pos) /\ streamer # NIL /\ (pos < 0 \/ pos > duration))
           => (ret'.err = "none" /\ currentPos' = Clamp(pos))]_vars

EndLatched == playing /\ duration # 0 /\ (hasEnded \/ IsCompleted)

C9_PlayWithoutTrack ==
    [][(Play /\ streamer = NIL)
         => /\ ret'.op = "Play" /\ ret'.err = "NoTrackLoaded"
            /\ mixer' = {}
            /\ ~playing'
            /\ UNCHANGED apVars]_vars

\* Play has failed on a player whose track was released by Stop
C9_Witness ==
    /\ ret.op = "Play" /\ ret.err = "NoTrackLoaded"
    /\ streamer = NIL /\ ~playing /\ mixer = {}
    /\ duration > 0

\* C10: when LoadTrack comes to open the new file, the stop of the previous
\* track is complete: nothing is attached to the speaker, the player is
\* stopped, and the previous decoder and file are closed and released.
C10_StopBeforeOpen ==
    pc = "load_open" =>
        /\ mixer = {}
        /\ ~playing
        /\ streamer = NIL /\ file = NIL
        /\ openStreams = {} /\ openFiles = {}

\* LoadTrack of another track is about to open its file, and the call before
\* it was a Play of a track that the render thread has pulled from
C10_Witness ==
    /\ pc = "load_open"
    /\ ret.op = "Play" /\ ret.err = "none"
    /\ streamPos > 0
    /\ SampleRate[call.arg] # format

\* C11: the speaker never holds more than one stream, and a Play that
\* attaches a stream leaves that stream alone in the mixer.
C11_OneStreamAttached ==
    /\ [](Cardinality(mixer) <= 1)
    /\ [][(Play /\ streamer # NIL /\ ~playing) => mixer' = {streamer}]_vars

\* Play has attached a track on a device that an earlier track of another
\* rate initialised, and it is the only stream in the mixer
C11_Witness ==
    /\ ret.op = "Play" /\ ret.err = "none"
    /\ playing
    /\ Cardinality(mixer) = 1 /\ mixer = {streamer}
    /\ speakerInitialized /\ deviceRate > 0 /\ deviceRate # format

\* C12: once Stop has returned, the player is stopped, the accumulated
\* position is 0 and the track is not ended.
C12_StopResets ==
    (pc = "idle" /\ ret.op = "Stop") =>
        /\ ~playing /\ ~IsPaused
        /\ currentPos = 0 /\ GetPositionValue = 0
        /\ ~hasEnded /\ ~HasEndedValue

\* C13: a Pause in any state but Playing changes neither the accumulated
\* position nor the time anchor nor the paused flag.
C13_PauseOnlyWhenPlaying ==
    [][(Pause /\ ~IsPlaying)
         => (UNCHANGED <<currentPos, startTime, ctrl>>
             /\ GetPositionValue' = GetPositionValue)]_vars

\* C14: a Resume in any state but Paused changes neither the time anchor
\* nor the accumulated position nor the paused flag.
C14_ResumeOnlyWhenPaused ==
    [][(Resume /\ ~IsPaused)
         => (UNCHANGED <<startTime, currentPos, ctrl>>
             /\ GetPositionValue' = GetPositionValue)]_vars

\* C15: a Play on a loaded track leaves the player Playing, from Paused as
\* from Stopped, and changes nothing when it is Playing already.
C15_PlayFromPaused ==
    [][/\ (Play /\ streamer # NIL) => IsPlaying'
       /\ (Play /\ IsPlaying) => UNCHANGED <<apVars, envVars>>]_vars

\* C16: right after a successful Seek(pos) the accumulated position is pos
\* and GetPosition reports pos, in any state.
C16_SeekSetsPosition ==
    [][\A pos \in SeekArgs :
         (Seek(pos) /\ ret'.err = "none")
           => (currentPos' = pos /\ GetPositionValue' = pos)]_vars

\* C17: after a LoadTrack that returned an error the player is stopped,
\* with nothing attached; a Play that returns an error changes nothing.
C17_FailureKeepsState ==
    /\ []((pc = "idle" /\ ret.op = "LoadTrack" /\ ret.err # "none")
           => (~playing /\ ~IsPaused /\ mixer = {}))
    /\ [][(Play /\ ret'.err # "none") => UNCHANGED <<apVars, envVars>>]_vars

\* a LoadTrack has failed before decoding, after an earlier track was played
C17_Witness ==
    /\ pc = "idle"
    /\ ret.op = "LoadTrack" /\ ret.err # "none"
    /\ streamer = NIL /\ ~playing
    /\ streamPos > 0

\* C18: between two Closes speaker.Init succeeds at most once; once the
\* speaker is initialised only Close changes that, and no LoadTrack changes
\* the rate the device runs at; a LoadTrack initialises the device only when
\* it is not initialised, and returns success when it does.
C18_InitOncePerLifecycle ==
    /\ [](speakerInits <= 1)
    /\ [](speakerInitialized => speakerInits = 1)
    /\ [][speakerInits' # speakerInits
            => \/ (LoadOpen /\ ~speakerInitialized /\ speakerInits' = 1
                    /\ ret'.err = "none")
               \/ (CloseClear /\ speakerInits' = 0)]_vars
    /\ [][speakerInitialized
            => (deviceRate' = deviceRate
                /\ (speakerInitialized' \/ CloseClear))]_vars

\* a LoadTrack of a track with another rate has succeeded on the device a
\* first LoadTrack initialised
C18_Witness ==
    /\ pc = "idle"
    /\ ret.op = "LoadTrack" /\ ret.err = "none"
    /\ speakerInitialized /\ speakerInits = 1
    /\ deviceRate > 0 /\ deviceRate # format

\* C20: a LoadTrack of a file the directory scanner admits never returns the
\* unsupported-format error, and only files it does not admit get that error.
C20_ScannedFormatsDecode ==
    [][LoadOpen
         => /\ ScanAdmits(call.arg) => ret'.err # "UnsupportedFormat"
            /\ ret'.err = "UnsupportedFormat" => ~ScanAdmits(call.arg)]_vars

\* the statements that read or write ctrl.Paused, currentPos or startTime
\* inside Pause, Resume, GetPosition and Stop
GuardedSteps == {"pause_flag", "pause_pos", "resume_flag", "resume_anchor",
                 "getpos_read", "stop_paused", "stop_store"}

\* C19: whenever a thread is at a statement of Pause, Resume, GetPosition or
\* Stop that reads or writes the paused flag or the position pair it holds
\* the speaker lock, so no two threads are at such statements together.
C19_AccessUnderLock ==
    /\ \A t \in Threads : thr[t].pc \in GuardedSteps => lock = t
    /\ \A t, u \in Threads :
         (t # u /\ thr[t].pc \in GuardedSteps) => thr[u].pc \notin GuardedSteps

\* C28: after a LoadTrack that returned an error no file handle the player
\* opened is still open.
C28_NoOpenFileAfterFailure ==
    (pc = "idle" /\ ret.op = "LoadTrack" /\ ret.err # "none")
        => openFiles = {}

\* C29: a Play that follows a LoadTrack that returned an error returns
\* NoTrackLoaded and attaches nothing.
C29_NoTrackAfterFailure ==
    [][(Play /\ ret.op = "LoadTrack" /\ ret.err # "none")
         => (ret'.err = "NoTrackLoaded" /\ mixer' = mixer /\ ~playing')]_vars

\* how often x occurs in the slice s
Count(s, x) == Cardinality({k \in 1..Len(s) : s[k] = x})

\* C23: at every round of shufflePlaylist, and so when it returns, the slice
\* has the length of the input and holds every path as often as the input.
C23_ShufflePermutes ==
    /\ Len(playlist) = Len(input)
    /\ \A x \in Tracks : Count(playlist, x) = Count(input, x)

\* the shuffle of three paths or more, one of them twice, has returned
\* another order
C23_Witness ==
    /\ i = 0
    /\ Len(input) > 2
    /\ playlist # input
    /\ \E x \in Tracks : Count(input, x) = 2

\* C21: the current index is always a position of the playlist; "right" and
\* the end of a track move it one forward and "left" one back, modulo the
\* length of the playlist.
C21_IndexInRange ==
    /\ [](currentIndex \in 0..(Len(playlist) - 1))
    /\ [][(KeyRight \/ TrackEndedMsg)
            => currentIndex' = (currentIndex + 1) % Len(playlist)]_vars
    /\ [][KeyLeft
            => currentIndex' = (currentIndex + Len(playlist) - 1) % Len(playlist)]_vars

\* "left" on the first track, before anything was loaded, has wrapped to the
\* last track
C21_Witness ==
    /\ currentIndex = Len(playlist) - 1
    /\ Len(playlist) > 2
    /\ \A g \in LoadSlots : g <= 2 => loads[g].st = "start"
    /\ ~mPlaying

\* the load commands that are between the start of their LoadTrack and the
\* return of their Play
Running == {g \in LoadSlots : loads[g].st \in {"open", "play"}}

\* C24: no handler of Update calls the player while a load command is
\* running, no two load commands run together, and the Play of a load
\* command always finds the track its LoadTrack loaded.
C24_NoOverlappingCalls ==
    /\ [](Cardinality(Running) <= 1)
    /\ [][(KeyLeft \/ KeyRight \/ KeyQuit \/ TrackEndedMsg \/ TickMsg
             \/ (KeySpace /\ mPlaying))
            => Running = {}]_vars
    /\ [][\A g \in LoadSlots : GoPlay(g) => ~NoTrackLoaded]_vars

\* C25: never more than one trackEndedMsg waits for Update, so one end of a
\* track is handled once.
C25_OneEndedPerEnd == nEnded <= 1

\* C26: never more than one tick is pending.
C26_OneTickPending == nTick <= 1

\* C27: with no load command in flight and a track attached, PlayerModel's
\* paused flag is the speaker's, and the space key calls Pause on a playing
\* player and Resume on a paused one only.
C27_PauseFlagsAgree ==
    /\ []((LoadsInFlight = {} /\ nLoaded = 0 /\ ~quit /\ mPlaying
             /\ streamer # NIL /\ ~ctrl.nil)
            => (mPaused = ctrl.Paused))
    /\ [][(KeySpace /\ mPlaying)
            => IF mPaused THEN ~IsPlaying ELSE ~IsPaused]_vars

\* the track in the speaker was played to its end, and nobody paused it
EndReached ==
    /\ ~quit
    /\ mPlaying /\ ~mPaused
    /\ playing /\ ~IsPaused
    /\ duration # 0 /\ IsCompleted

\* a track is playing that has not reached its end
PlayingOn == playing /\ ~IsPaused /\ streamer # NIL /\ ~IsCompleted

\* C22: once the track has been played to its end, a track of the playlist
\* is playing again later on, unless the user quits or pauses.
C22_EndLeadsToNextTrack == EndReached ~> (PlayingOn \/ quit \/ mPaused)
====
